---------------------------- MODULE Spec2Model ----------------------------
(***************************************************************************)
(* A model of the photo taker application of src/src/index.ts: the         *)
(* per-user photo cache, the button-press and auto-stream capture          *)
(* handlers, the follow-up capture inside cachePhoto, the file writes, the *)
(* uploads and the HTTP routes.                                            *)
(*                                                                         *)
(* JavaScript runs each handler to completion between two awaits, so one   *)
(* action of the model is the code between two awaits of one handler.      *)
(***************************************************************************)
EXTENDS Integers, Sequences, FiniteSets, TLC

VARIABLES
    photos,                 \* Map userId -> StoredPhoto[]          (index.ts:83)
    latestPhotoTimestamp,   \* Map userId -> ms of the last cached  (index.ts:84)
    isStreamingPhotos,      \* Map userId -> boolean                (index.ts:85)
    nextPhotoTime,          \* Map userId -> ms                     (index.ts:86)
    sessionMap,             \* Map userId -> session                (index.ts:87)
    sessions,               \* the sessions onSession was called for, in order
    tasks,                  \* the handler invocations that are awaiting something
    now,                    \* Date.now(), in ms
    nextRequestId,          \* the number of camera requests issued so far
    files,                  \* the names of the files written under snapshots/
    writes,                 \* the names fs.writeFile was called for
    uploads,                \* the bucket.upload calls, by destination
    inserted,               \* per user, what was unshifted into the list and by which function, in order
    escaped,                \* the handlers an exception has left
    response,               \* the answer of this step, when it is an HTTP request
    limit,                  \* how much the environment may do in this behaviour
    used,                   \* how much of it the environment has done
    probe,                  \* input and outputs of the file name functions
    lastAuto                \* per user, the last camera request a timer callback made

vars == <<photos, latestPhotoTimestamp, isStreamingPhotos, nextPhotoTime,
          sessionMap, sessions, tasks, now, nextRequestId, files, writes,
          uploads, inserted, escaped, response, limit, used, probe, lastAuto>>

-----------------------------------------------------------------------------
(* Optional values: a value that may be undefined is a sequence of length  *)
(* at most one.                                                            *)
Undefined == << >>
Some(v) == <<v>>
IsDefined(o) == o # Undefined
Get(o) == o[1]
\* a ?? b
Coalesce(o, default) == IF IsDefined(o) THEN Get(o) ELSE default

(* A JavaScript Map is a function on the keys that were set.               *)
EmptyMap == [k \in {} |-> Undefined]
MapGet(m, k) == IF k \in DOMAIN m THEN Some(m[k]) ELSE Undefined
MapSet(m, k, v) == [x \in DOMAIN m \cup {k} |-> IF x = k THEN v ELSE m[x]]

-----------------------------------------------------------------------------
(* Strings.                                                                *)

Digit(n) == SubSeq("0123456789", n + 1, n + 1)

RECURSIVE Pad(_, _)
\* n in decimal, zero-padded on the left to w digits
Pad(n, w) == IF w = 0 THEN "" ELSE Pad(n \div 10, w - 1) \o Digit(n % 10)

RECURSIVE ReplaceAllFrom(_, _, _, _)
ReplaceAllFrom(s, i, c, by) ==
    IF i > Len(s) THEN ""
    ELSE (IF SubSeq(s, i, i) = c THEN by ELSE SubSeq(s, i, i))
             \o ReplaceAllFrom(s, i + 1, c, by)

\* s.replace(/[c]/g, by)
ReplaceAll(s, c, by) == ReplaceAllFrom(s, 1, c, by)

\* the proleptic Gregorian date of day number `days` (0 is 1970-01-01)
CivilFromDays(days) ==
    LET z   == days + 719468
        era == z \div 146097
        doe == z - era * 146097
        yoe == (doe - doe \div 1460 + doe \div 36524 - doe \div 146096) \div 365
        doy == doe - (365 * yoe + yoe \div 4 - yoe \div 100)
        mp  == (5 * doy + 2) \div 153
        d   == doy - (153 * mp + 2) \div 5 + 1
        m   == IF mp < 10 THEN mp + 3 ELSE mp - 9
        y   == yoe + era * 400 + (IF m <= 2 THEN 1 ELSE 0)
    IN  [year |-> y, month |-> m, day |-> d]

MsPerDay == 24 * 60 * 60 * 1000

\* Date.prototype.toISOString of the date d ms after the epoch:
\* YYYY-MM-DDTHH:mm:ss.sssZ
ToISOString(d) ==
    LET date == CivilFromDays(d \div MsPerDay)
        ms   == d % MsPerDay
    IN  Pad(date.year, 4) \o "-" \o Pad(date.month, 2) \o "-" \o Pad(date.day, 2)
            \o "T" \o Pad(ms \div 3600000, 2)
            \o ":" \o Pad((ms \div 60000) % 60, 2)
            \o ":" \o Pad((ms \div 1000) % 60, 2)
            \o "." \o Pad(ms % 1000, 3) \o "Z"

-----------------------------------------------------------------------------
(* The file name helpers.                                                  *)

ExtFromMimeJpegOnly(mime) ==
    IF (~IsDefined(mime)) \/ Get(mime) = "" THEN ".bin"
    ELSE IF Get(mime) = "image/jpeg" THEN ".jpg"
    ELSE IF Get(mime) = "image/png" THEN ".png"
    ELSE IF Get(mime) = "image/webp" THEN ".webp"
    ELSE IF Get(mime) = "image/gif" THEN ".gif"
    ELSE IF Get(mime) = "image/bmp" THEN ".bmp"
    ELSE IF Get(mime) = "image/tiff" THEN ".tiff"
    ELSE ".bin"

ExtFromMime(mime) ==
    IF (~IsDefined(mime)) \/ Get(mime) = "" THEN ".bin"
    ELSE IF Get(mime) = "image/jpeg" \/ Get(mime) = "image/jpg" THEN ".jpg"
    ELSE IF Get(mime) = "image/png" THEN ".png"
    ELSE IF Get(mime) = "image/webp" THEN ".webp"
    ELSE IF Get(mime) = "image/gif" THEN ".gif"
    ELSE IF Get(mime) = "image/bmp" THEN ".bmp"
    ELSE IF Get(mime) = "image/tiff" THEN ".tiff"
    ELSE ".bin"

\* d.toISOString().replace(/[:]/g, "-"); iso is bound to the value of
\* d.toISOString(), which is so computed once
SafeTimestamp(d) ==
    CHOOSE ts \in {ReplaceAll(iso, ":", "-") : iso \in {ToISOString(d)}} : TRUE

\* cachePhoto's baseName; newDate is what `new Date()` gives at the call
CachePhotoBaseName(photo, newDate) ==
    LET ext == ExtFromMime(photo.mimeType)
        ts  == SafeTimestamp(Coalesce(photo.timestamp, newDate))
    IN  "photo_" \o ts \o "_" \o Coalesce(photo.requestId, "unknown") \o ext

\* savePhotoOnly's baseName
SavePhotoOnlyBaseName(photo, newDate) ==
    LET ext == ExtFromMime(photo.mimeType)
        ts  == SafeTimestamp(Coalesce(photo.timestamp, newDate))
    IN  "photo_" \o ts \o "_" \o Coalesce(photo.requestId, "unknown") \o ext

-----------------------------------------------------------------------------
(* Program constants and the bounds of the model.                          *)

MaxPhotos == 50            \* "keep last 50 photos per user"
ThrottleMs == 30000        \* nextPhotoTime = Date.now() + 30000
IntervalMs == 1000         \* setInterval(..., 1000)

Users == {"alice", "bob"}
ThrottleUsers == {"alice"}
PressTypes == {"short", "long"}
CameraMimeTypes == {"image/jpeg", "image/png"}
ClockSteps == {IntervalMs, ThrottleMs}

MaxSessions == 2           \* onSession calls in one behaviour within WideLimit and OverlapLimit
MaxRequests == 2           \* camera requests in one behaviour within WideLimit
MaxEvents == 2             \* environment events in one behaviour within WideLimit
OverlapRequests == 4       \* camera requests in one behaviour within OverlapLimit
OverlapEvents == 1         \* environment events in one behaviour within OverlapLimit
ThrottleRequests == 3      \* camera requests in one behaviour within ThrottleLimit
ThrottleEvents == 4        \* environment events in one behaviour within ThrottleLimit
LongEvents == 1            \* environment events in one behaviour within LongLimit
LiveRequests == 4          \* camera requests in one behaviour within LiveLimit
LiveEvents == 2            \* environment events in one behaviour within LiveLimit
MaxParam == 2              \* GET /api/photo/r0 .. r<MaxParam>

(* An environment event is a choice of the environment other than a long  *)
(* press, a press or tick that finds no capture in flight, and a request   *)
(* that succeeds with a JPEG: it is a failure, a photo of another format,  *)
(* a clock step, a second session, a stop, an HTTP request or a capture    *)
(* started while another is in flight.                                     *)
WideLimit ==
    [requests |-> MaxRequests, events |-> MaxEvents, sessions |-> MaxSessions]
OverlapLimit ==
    [requests |-> OverlapRequests, events |-> OverlapEvents, sessions |-> MaxSessions]
ThrottleLimit ==
    [requests |-> ThrottleRequests, events |-> ThrottleEvents, sessions |-> MaxSessions]
LiveLimit ==
    [requests |-> LiveRequests, events |-> LiveEvents, sessions |-> 1]
LongLimit ==
    [requests |-> MaxPhotos + 2, events |-> LongEvents, sessions |-> 1]

CanSpend(n) == used + n <= limit.events
\* a capture is a primary request and at most one follow-up request
CanCapture == nextRequestId + 2 <= limit.requests
Overlap == IF DOMAIN tasks = {} THEN 0 ELSE 1

RequestIdOf(n) == "r" \o ToString(n)

-----------------------------------------------------------------------------
(* The cache.                                                              *)

StoredPhotoFullPath(photo, userId, baseName) ==
    [requestId |-> photo.requestId,
     buffer    |-> photo.buffer,
     timestamp |-> photo.timestamp,
     userId    |-> userId,
     mimeType  |-> photo.mimeType,
     filename  |-> "snapshots/" \o baseName]

\* the StoredPhoto built from a PhotoData (the size is left out: nothing reads it
\* but GET /api/photos, which copies it)
StoredPhoto(photo, userId, baseName) ==
    [requestId |-> photo.requestId,
     buffer    |-> photo.buffer,
     timestamp |-> photo.timestamp,
     userId    |-> userId,
     mimeType  |-> photo.mimeType,
     filename  |-> baseName]

UnshiftNoLimit(list, cachedPhoto) == <<cachedPhoto>> \o list

UnshiftKeepLast(list, cachedPhoto) ==
    LET l == <<cachedPhoto>> \o list
    IN  IF Len(l) > MaxPhotos THEN SubSeq(l, Len(l) - MaxPhotos + 1, Len(l)) ELSE l

\* list.unshift(cachedPhoto); if (list.length > 50) list.length = 50
Unshift(list, cachedPhoto) ==
    LET l == <<cachedPhoto>> \o list
    IN  IF Len(l) > MaxPhotos THEN SubSeq(l, 1, MaxPhotos) ELSE l

PhotosOf(userId) == Coalesce(MapGet(photos, userId), << >>)
InsertedOf(userId) == Coalesce(MapGet(inserted, userId), << >>)

\* uploadToFirebase's destination
Destination(cachedPhoto) ==
    "sessions/" \o cachedPhoto.userId \o "/images/" \o cachedPhoto.filename

\* the number of bucket.upload calls for a destination
Calls(upl, destination) ==
    IF destination \in DOMAIN upl THEN upl[destination].calls ELSE 0

\* The end of cachePhoto and of savePhotoOnly, from `const cachedPhoto` to the
\* call of bucket.upload, which no await interrupts: the record is put at the
\* head of the user's list and its upload is started. `upl` is the upload log
\* the call is added to, `by` the function: "cachePhoto" or "savePhotoOnly".
CacheAndUpload(photo, userId, baseName, upl, by) ==
    LET cachedPhoto == StoredPhoto(photo, userId, baseName)
    IN  /\ photos' = MapSet(photos, userId, Unshift(PhotosOf(userId), cachedPhoto))
        /\ latestPhotoTimestamp' =
               MapSet(latestPhotoTimestamp, userId, Get(cachedPhoto.timestamp))
        /\ inserted' = MapSet(inserted, userId,
                              Append(InsertedOf(userId),
                                     [requestId |-> cachedPhoto.requestId, by |-> by]))
        /\ uploads' = MapSet(upl, Destination(cachedPhoto),
                              [filename |-> cachedPhoto.filename,
                               calls    |-> Calls(upl, Destination(cachedPhoto)) + 1,
                               status   |-> "pending"])

-----------------------------------------------------------------------------
(* try/catch.  Every await of a capture is listed with the try blocks      *)
(* around it, innermost first, each with the function its catch clause is  *)
(* in, and with the functions the await is called through, innermost       *)
(* first.                                                                  *)

TryStackNoHandlerCatch(pc) ==
    CASE pc = "camera"       -> << >>
      [] pc = "write"        -> <<"cachePhoto">>
      [] pc = "followCamera" -> <<"follow", "cachePhoto">>
      [] pc = "followWrite"  -> <<"savePhotoOnly", "follow", "cachePhoto">>
      [] pc = "followUpload" -> <<"uploadToFirebase", "follow", "cachePhoto">>
      [] pc = "upload"       -> <<"uploadToFirebase">>

TryStackNoWriteCatch(pc) ==
    CASE pc = "camera"       -> <<"handler">>
      [] pc = "write"        -> <<"handler">>
      [] pc = "followCamera" -> <<"follow", "handler">>
      [] pc = "followWrite"  -> <<"savePhotoOnly", "follow", "handler">>
      [] pc = "followUpload" -> <<"uploadToFirebase", "follow", "handler">>
      [] pc = "upload"       -> <<"uploadToFirebase", "handler">>

TryStackNoUploadCatch(pc) ==
    CASE pc = "camera"       -> <<"handler">>
      [] pc = "write"        -> <<"cachePhoto", "handler">>
      [] pc = "followCamera" -> <<"follow", "cachePhoto", "handler">>
      [] pc = "followWrite"  -> <<"savePhotoOnly", "follow", "cachePhoto", "handler">>
      [] pc = "followUpload" -> <<"follow", "cachePhoto", "handler">>
      [] pc = "upload"       -> <<"handler">>

TryStackFollowToHandler(pc) ==
    CASE pc = "camera"       -> <<"handler">>
      [] pc = "write"        -> <<"cachePhoto", "handler">>
      [] pc = "followCamera" -> <<"handler">>
      [] pc = "followWrite"  -> <<"handler">>
      [] pc = "followUpload" -> <<"uploadToFirebase", "follow", "cachePhoto", "handler">>
      [] pc = "upload"       -> <<"uploadToFirebase", "handler">>

\* the catch clauses around each await: "handler" is the catch of the button
\* handler and of the timer callback, "cachePhoto" the catch of the file write,
\* "follow" the catch of the follow-up, "savePhotoOnly" and "uploadToFirebase"
\* the catch of these functions
TryStack(pc) ==
    CASE pc = "camera"       -> <<"handler">>
      [] pc = "write"        -> <<"cachePhoto", "handler">>
      [] pc = "followCamera" -> <<"follow", "cachePhoto", "handler">>
      [] pc = "followWrite"  -> <<"savePhotoOnly", "follow", "cachePhoto", "handler">>
      [] pc = "followUpload" -> <<"uploadToFirebase", "follow", "cachePhoto", "handler">>
      [] pc = "upload"       -> <<"uploadToFirebase", "handler">>

\* the function a catch clause is in
FunctionOfCatch(c) == IF c = "follow" THEN "cachePhoto" ELSE c

\* the functions an await is called through, innermost first
CallChain(pc) ==
    CASE pc = "camera"       -> <<"handler">>
      [] pc = "write"        -> <<"cachePhoto", "handler">>
      [] pc = "followCamera" -> <<"cachePhoto", "handler">>
      [] pc = "followWrite"  -> <<"savePhotoOnly", "cachePhoto", "handler">>
      [] pc = "followUpload" -> <<"uploadToFirebase", "savePhotoOnly", "cachePhoto", "handler">>
      [] pc = "upload"       -> <<"uploadToFirebase", "cachePhoto", "handler">>

\* the catch clause that catches a rejection of the await at pc
Catcher(pc) == IF TryStack(pc) = << >> THEN "none" ELSE Head(TryStack(pc))

\* the functions the rejection leaves on its way to that catch clause
FunctionsLeft(pc) ==
    LET chain == CallChain(pc)
        stop  == IF Catcher(pc) = "none" THEN "none" ELSE FunctionOfCatch(Catcher(pc))
    IN  {chain[i] : i \in {j \in 1..Len(chain) :
                             \A k \in 1..j : chain[k] # stop}}

-----------------------------------------------------------------------------
(* Handler invocations.  A task is one run of the button handler or of the *)
(* timer callback that took the capture branch; it is named by the number  *)
(* of its primary camera request.  pc is the await it is suspended at.     *)

NewTask(kind, s) ==
    [kind      |-> kind,                \* "button" or "timer"
     session   |-> s,                   \* the session of the closure
     userId    |-> sessions[s].userId,  \* the userId of the closure
     pc        |-> "camera",
     request   |-> nextRequestId + 1,   \* the camera request awaited, or the last one
     photo     |-> Undefined,           \* the primary photo
     baseName  |-> "",                  \* its file name
     nextPhoto |-> Undefined,           \* the follow-up photo
     nextName  |-> "",                  \* its file name
     upload    |-> ""]                  \* the destination of the awaited upload

StartCaptureBoth(kind, s) ==
    /\ tasks' = MapSet(tasks, nextRequestId + 1,
                       [NewTask(kind, s) EXCEPT !.request = nextRequestId + 2])
    /\ nextRequestId' = nextRequestId + 2

\* session.camera.requestPhoto() called by a handler of session s
StartCapture(kind, s) ==
    /\ tasks' = MapSet(tasks, nextRequestId + 1, NewTask(kind, s))
    /\ nextRequestId' = nextRequestId + 1

Finish(t) == tasks' = [x \in DOMAIN tasks \ {t} |-> tasks[x]]

Goto(t, pc) == tasks' = [tasks EXCEPT ![t].pc = pc]

\* the PhotoData the camera answers request n with; PhotoData's requestId,
\* timestamp and mimeType are never undefined (StoredPhoto's fields, which are
\* assigned from them, are not optional)
PhotoData(n, mime) ==
    [requestId |-> Some(RequestIdOf(n)),
     buffer    |-> n,
     timestamp |-> Some(now),
     mimeType  |-> Some(mime)]

MimeCost(mime) == IF mime = "image/jpeg" THEN 0 ELSE 1

SetStatus(upl, destination, status) ==
    [upl EXCEPT ![destination].status = status]

\* Where a task goes on when the await it is suspended at rejects: to the
\* innermost catch clause around it.  `upl` is the upload log of the step.
Raise(t, upl) ==
    LET task == tasks[t]
        c    == Catcher(task.pc)
    IN  /\ escaped' = escaped \cup FunctionsLeft(task.pc)
        /\ IF c \in {"cachePhoto", "follow", "savePhotoOnly"}
              \/ (c = "uploadToFirebase" /\ task.pc = "followUpload")
           THEN \* cachePhoto goes on after its try block
                /\ CacheAndUpload(Get(task.photo), task.userId, task.baseName, upl,
                                  "cachePhoto")
                /\ tasks' = [tasks EXCEPT
                       ![t].pc = "upload",
                       ![t].upload = Destination(StoredPhoto(Get(task.photo),
                                                 task.userId, task.baseName))]
           ELSE \* the handler ends: in its catch clause, after cachePhoto, or
                \* with the exception
                /\ Finish(t)
                /\ uploads' = upl
                /\ UNCHANGED <<photos, latestPhotoTimestamp, inserted>>

-----------------------------------------------------------------------------
(* The session handlers.                                                   *)

Session(s) == sessions[s]
SessionIds == 1..Len(sessions)
Streaming(userId) == Coalesce(MapGet(isStreamingPhotos, userId), FALSE)

OnSession(userId) ==
    /\ Len(sessions) < limit.sessions
    /\ CanSpend(IF sessions = << >> THEN 0 ELSE 1)
    /\ used' = used + (IF sessions = << >> THEN 0 ELSE 1)
    /\ sessions' = Append(sessions, [userId |-> userId, active |-> TRUE])
    /\ isStreamingPhotos' = MapSet(isStreamingPhotos, userId, FALSE)
    /\ nextPhotoTime' = MapSet(nextPhotoTime, userId, now)
    /\ sessionMap' = MapSet(sessionMap, userId, Len(sessions) + 1)
    /\ response' = Undefined
    /\ UNCHANGED <<photos, latestPhotoTimestamp, tasks, now, nextRequestId, files,
                   writes, uploads, inserted, escaped, limit, probe, lastAuto>>

ButtonPressLongCaptures(s, pressType) ==
    /\ s \in SessionIds
    /\ Session(s).active
    /\ CanCapture
    /\ CanSpend(Overlap)
    /\ used' = used + Overlap
    /\ StartCapture("button", s)
    /\ isStreamingPhotos' =
           IF pressType = "long"
           THEN MapSet(isStreamingPhotos, Session(s).userId,
                       ~Streaming(Session(s).userId))
           ELSE isStreamingPhotos
    /\ response' = Undefined
    /\ UNCHANGED <<photos, latestPhotoTimestamp, nextPhotoTime, sessionMap, sessions,
                   now, files, writes, uploads, inserted, escaped, limit,
                   probe, lastAuto>>

\* the callback of session.events.onButtonPress
ButtonPress(s, pressType) ==
    /\ s \in SessionIds
    /\ Session(s).active
    /\ IF pressType = "long"
       THEN /\ UNCHANGED used
            /\ isStreamingPhotos' =
                   MapSet(isStreamingPhotos, Session(s).userId,
                          ~Streaming(Session(s).userId))
            /\ UNCHANGED <<tasks, nextRequestId>>
       ELSE /\ CanCapture
            /\ CanSpend(Overlap)
            /\ used' = used + Overlap
            /\ StartCapture("button", s)
            /\ UNCHANGED isStreamingPhotos
    /\ response' = Undefined
    /\ UNCHANGED <<photos, latestPhotoTimestamp, nextPhotoTime, sessionMap, sessions,
                   now, files, writes, uploads, inserted, escaped, limit,
                   probe, lastAuto>>

TimerFiresBefore(userId) ==
    /\ Streaming(userId)
    /\ now < Coalesce(MapGet(nextPhotoTime, userId), 0)

TimerFiresAlways(userId) == now > Coalesce(MapGet(nextPhotoTime, userId), 0)

\* the condition of the auto-stream loop
TimerFires(userId) ==
    /\ Streaming(userId)
    /\ now > Coalesce(MapGet(nextPhotoTime, userId), 0)

\* the callback of setInterval, which nothing clears
TimerTick(s) ==
    /\ s \in SessionIds
    /\ IF TimerFires(Session(s).userId)
       THEN /\ CanCapture
            /\ CanSpend(Overlap)
            /\ used' = used + Overlap
            /\ nextPhotoTime' = MapSet(nextPhotoTime, Session(s).userId, now + ThrottleMs)
            /\ StartCapture("timer", s)
            /\ lastAuto' = MapSet(lastAuto, Session(s).userId,
                                  [request |-> nextRequestId + 1, started |-> now,
                                   status |-> "pending"])
            /\ response' = Undefined
            /\ UNCHANGED <<photos, latestPhotoTimestamp, isStreamingPhotos, sessionMap,
                           sessions, now, files, writes, uploads, inserted, escaped,
                           limit, probe>>
       ELSE UNCHANGED vars

OnStop(s) ==
    /\ s \in SessionIds
    /\ Session(s).active
    /\ CanSpend(1)
    /\ used' = used + 1
    /\ sessions' = [sessions EXCEPT ![s].active = FALSE]
    /\ isStreamingPhotos' = EmptyMap
    /\ nextPhotoTime' = EmptyMap
    /\ sessionMap' = EmptyMap
    /\ response' = Undefined
    /\ UNCHANGED <<photos, latestPhotoTimestamp, tasks, now, nextRequestId, files,
                   writes, uploads, inserted, escaped, limit, probe, lastAuto>>

-----------------------------------------------------------------------------
(* The awaits of a capture.                                                *)

\* the log of the timer callbacks' requests when request t settles
Settle(t, status) ==
    LET u == tasks[t].userId
    IN  IF /\ tasks[t].kind = "timer"
           /\ u \in DOMAIN lastAuto
           /\ lastAuto[u].request = t
        THEN [lastAuto EXCEPT ![u].status = status]
        ELSE lastAuto

\* requestPhoto() of the handler resolves: the timer callback resets
\* nextPhotoTime; cachePhoto builds the file name and calls fs.writeFile
CameraResolve(t, mime) ==
    /\ t \in DOMAIN tasks
    /\ tasks[t].pc = "camera"
    /\ CanSpend(MimeCost(mime))
    /\ used' = used + MimeCost(mime)
    /\ LET photo    == PhotoData(tasks[t].request, mime)
           baseName == CachePhotoBaseName(photo, now)
       IN  /\ tasks' = [tasks EXCEPT ![t].pc = "write", ![t].photo = Some(photo),
                                     ![t].baseName = baseName]
           /\ writes' = writes \cup {baseName}
    /\ nextPhotoTime' = IF tasks[t].kind = "timer"
                        THEN MapSet(nextPhotoTime, tasks[t].userId, now)
                        ELSE nextPhotoTime
    /\ lastAuto' = Settle(t, "ok")
    /\ response' = Undefined
    /\ UNCHANGED <<photos, latestPhotoTimestamp, isStreamingPhotos, sessionMap,
                   sessions, now, nextRequestId, files, uploads, inserted, escaped,
                   limit, probe>>

\* requestPhoto() of the handler rejects
CameraReject(t) ==
    /\ t \in DOMAIN tasks
    /\ tasks[t].pc = "camera"
    /\ CanSpend(1)
    /\ used' = used + 1
    /\ Raise(t, uploads)
    /\ lastAuto' = Settle(t, "failed")
    /\ response' = Undefined
    /\ UNCHANGED <<isStreamingPhotos, nextPhotoTime, sessionMap, sessions, now,
                   nextRequestId, files, writes, limit, probe>>

\* fs.writeFile of cachePhoto resolves: the follow-up photo is requested
\* (both callers pass the session)
WriteResolve(t) ==
    /\ t \in DOMAIN tasks
    /\ tasks[t].pc = "write"
    /\ files' = files \cup {tasks[t].baseName}
    /\ nextRequestId' = nextRequestId + 1
    /\ tasks' = [tasks EXCEPT ![t].pc = "followCamera",
                              ![t].request = nextRequestId + 1]
    /\ response' = Undefined
    /\ UNCHANGED <<photos, latestPhotoTimestamp, isStreamingPhotos, nextPhotoTime,
                   sessionMap, sessions, now, writes, uploads, inserted, escaped,
                   limit, used, probe, lastAuto>>

\* fs.writeFile of cachePhoto rejects
WriteReject(t) ==
    /\ t \in DOMAIN tasks
    /\ tasks[t].pc = "write"
    /\ CanSpend(1)
    /\ used' = used + 1
    /\ Raise(t, uploads)
    /\ response' = Undefined
    /\ UNCHANGED <<isStreamingPhotos, nextPhotoTime, sessionMap, sessions, now,
                   nextRequestId, files, writes, limit, probe, lastAuto>>

\* the follow-up requestPhoto() resolves: savePhotoOnly builds the file name
\* and calls fs.writeFile
FollowCameraResolve(t, mime) ==
    /\ t \in DOMAIN tasks
    /\ tasks[t].pc = "followCamera"
    /\ CanSpend(MimeCost(mime))
    /\ used' = used + MimeCost(mime)
    /\ LET nextPhoto == PhotoData(tasks[t].request, mime)
           baseName  == SavePhotoOnlyBaseName(nextPhoto, now)
       IN  /\ tasks' = [tasks EXCEPT ![t].pc = "followWrite",
                                     ![t].nextPhoto = Some(nextPhoto),
                                     ![t].nextName = baseName]
           /\ writes' = writes \cup {baseName}
    /\ response' = Undefined
    /\ UNCHANGED <<photos, latestPhotoTimestamp, isStreamingPhotos, nextPhotoTime,
                   sessionMap, sessions, now, nextRequestId, files, uploads, inserted,
                   escaped, limit, probe, lastAuto>>

\* the follow-up requestPhoto() rejects
FollowCameraReject(t) ==
    /\ t \in DOMAIN tasks
    /\ tasks[t].pc = "followCamera"
    /\ CanSpend(1)
    /\ used' = used + 1
    /\ Raise(t, uploads)
    /\ response' = Undefined
    /\ UNCHANGED <<isStreamingPhotos, nextPhotoTime, sessionMap, sessions, now,
                   nextRequestId, files, writes, limit, probe, lastAuto>>

FollowWriteResolveAgain(t) ==
    /\ t \in DOMAIN tasks
    /\ tasks[t].pc = "followWrite"
    /\ files' = files \cup {tasks[t].nextName}
    /\ nextRequestId' = nextRequestId + 1
    /\ tasks' = [tasks EXCEPT ![t].pc = "followCamera",
                              ![t].request = nextRequestId + 1]
    /\ response' = Undefined
    /\ UNCHANGED <<photos, latestPhotoTimestamp, isStreamingPhotos, nextPhotoTime,
                   sessionMap, sessions, now, writes, uploads, inserted, escaped,
                   limit, used, probe, lastAuto>>

\* fs.writeFile of savePhotoOnly resolves: the follow-up photo is cached and
\* its upload started
FollowWriteResolve(t) ==
    /\ t \in DOMAIN tasks
    /\ tasks[t].pc = "followWrite"
    /\ files' = files \cup {tasks[t].nextName}
    /\ CacheAndUpload(Get(tasks[t].nextPhoto), tasks[t].userId, tasks[t].nextName,
                      uploads, "savePhotoOnly")
    /\ tasks' = [tasks EXCEPT
           ![t].pc = "followUpload",
           ![t].upload = Destination(StoredPhoto(Get(tasks[t].nextPhoto),
                                     tasks[t].userId, tasks[t].nextName))]
    /\ response' = Undefined
    /\ UNCHANGED <<isStreamingPhotos, nextPhotoTime, sessionMap, sessions, now,
                   nextRequestId, writes, escaped, limit, used, probe, lastAuto>>

\* fs.writeFile of savePhotoOnly rejects
FollowWriteReject(t) ==
    /\ t \in DOMAIN tasks
    /\ tasks[t].pc = "followWrite"
    /\ CanSpend(1)
    /\ used' = used + 1
    /\ Raise(t, uploads)
    /\ response' = Undefined
    /\ UNCHANGED <<isStreamingPhotos, nextPhotoTime, sessionMap, sessions, now,
                   nextRequestId, files, writes, limit, probe, lastAuto>>

\* bucket.upload reads the file under snapshots/
CanUpload(t) == uploads[tasks[t].upload].filename \in files

\* the upload of the follow-up photo resolves: savePhotoOnly returns, and
\* cachePhoto caches the primary photo and starts its upload
FollowUploadResolve(t) ==
    /\ t \in DOMAIN tasks
    /\ tasks[t].pc = "followUpload"
    /\ CanUpload(t)
    /\ CacheAndUpload(Get(tasks[t].photo), tasks[t].userId, tasks[t].baseName,
                      SetStatus(uploads, tasks[t].upload, "uploaded"), "cachePhoto")
    /\ tasks' = [tasks EXCEPT
           ![t].pc = "upload",
           ![t].upload = Destination(StoredPhoto(Get(tasks[t].photo),
                                     tasks[t].userId, tasks[t].baseName))]
    /\ response' = Undefined
    /\ UNCHANGED <<isStreamingPhotos, nextPhotoTime, sessionMap, sessions, now,
                   nextRequestId, files, writes, escaped, limit, used,
                   probe, lastAuto>>

\* the upload of the follow-up photo rejects
FollowUploadReject(t) ==
    /\ t \in DOMAIN tasks
    /\ tasks[t].pc = "followUpload"
    /\ CanSpend(1)
    /\ used' = used + 1
    /\ Raise(t, SetStatus(uploads, tasks[t].upload, "failed"))
    /\ response' = Undefined
    /\ UNCHANGED <<isStreamingPhotos, nextPhotoTime, sessionMap, sessions, now,
                   nextRequestId, files, writes, limit, probe, lastAuto>>

\* the upload of the primary photo resolves: cachePhoto returns and the
\* handler ends
UploadResolve(t) ==
    /\ t \in DOMAIN tasks
    /\ tasks[t].pc = "upload"
    /\ CanUpload(t)
    /\ uploads' = SetStatus(uploads, tasks[t].upload, "uploaded")
    /\ Finish(t)
    /\ response' = Undefined
    /\ UNCHANGED <<photos, latestPhotoTimestamp, isStreamingPhotos, nextPhotoTime,
                   sessionMap, sessions, now, nextRequestId, files, writes, inserted,
                   escaped, limit, used, probe, lastAuto>>

\* the upload of the primary photo rejects
UploadReject(t) ==
    /\ t \in DOMAIN tasks
    /\ tasks[t].pc = "upload"
    /\ CanSpend(1)
    /\ used' = used + 1
    /\ Raise(t, SetStatus(uploads, tasks[t].upload, "failed"))
    /\ response' = Undefined
    /\ UNCHANGED <<isStreamingPhotos, nextPhotoTime, sessionMap, sessions, now,
                   nextRequestId, files, writes, limit, probe, lastAuto>>

\* time passes
Advance(d) ==
    /\ CanSpend(1)
    /\ used' = used + 1
    /\ now' = now + d
    /\ response' = Undefined
    /\ UNCHANGED <<photos, latestPhotoTimestamp, isStreamingPhotos, nextPhotoTime,
                   sessionMap, sessions, tasks, nextRequestId, files, writes, uploads,
                   inserted, escaped, limit, probe, lastAuto>>

-----------------------------------------------------------------------------
(* The HTTP routes.  authUserId is the optional identifier the host        *)
(* framework puts on the request; `!userId` holds of undefined and of "".  *)

Authenticated(authUserId) == IsDefined(authUserId) /\ Get(authUserId) # ""

NotAuthenticated(route, authUserId) ==
    [route |-> route, authUserId |-> authUserId, status |-> 401,
     body |-> "Not authenticated"]

\* list.find((p) => p.requestId === requestId)
Find(list, requestId) ==
    LET hits == {i \in 1..Len(list) : list[i].requestId = Some(requestId)}
    IN  IF hits = {} THEN Undefined
        ELSE Some(list[CHOOSE i \in hits : \A j \in hits : i <= j])

Metadata(p) ==
    [requestId |-> p.requestId, timestamp |-> Get(p.timestamp),
     filename |-> p.filename, mimeType |-> p.mimeType]

LatestPhotoRoute(authUserId) ==
    IF ~Authenticated(authUserId)
    THEN NotAuthenticated("/api/latest-photo", authUserId)
    ELSE LET list == PhotosOf(Get(authUserId))
         IN  IF list = << >>
             THEN [route |-> "/api/latest-photo", authUserId |-> authUserId,
                   status |-> 404, body |-> "No photo available"]
             ELSE [route |-> "/api/latest-photo", authUserId |-> authUserId,
                   status |-> 200,
                   body |-> [requestId |-> list[1].requestId,
                             timestamp |-> Get(list[1].timestamp),
                             hasPhoto  |-> TRUE]]

PhotosRouteNoCheck(authUserId) ==
    LET list == IF Authenticated(authUserId) THEN PhotosOf(Get(authUserId)) ELSE << >>
    IN  [route |-> "/api/photos", authUserId |-> authUserId, status |-> 200,
         body |-> [i \in 1..Len(list) |-> Metadata(list[i])]]

PhotosRoute(authUserId) ==
    IF ~Authenticated(authUserId)
    THEN NotAuthenticated("/api/photos", authUserId)
    ELSE LET list == PhotosOf(Get(authUserId))
         IN  [route |-> "/api/photos", authUserId |-> authUserId, status |-> 200,
              body |-> [i \in 1..Len(list) |-> Metadata(list[i])]]

PhotoRoute(authUserId, requestId) ==
    IF ~Authenticated(authUserId)
    THEN NotAuthenticated("/api/photo/" \o requestId, authUserId)
    ELSE LET photo == Find(PhotosOf(Get(authUserId)), requestId)
         IN  IF ~IsDefined(photo)
             THEN [route |-> "/api/photo/" \o requestId, authUserId |-> authUserId,
                   status |-> 404, body |-> "Photo not found"]
             ELSE [route |-> "/api/photo/" \o requestId, authUserId |-> authUserId,
                   status |-> 200,
                   body |-> [contentType |-> Get(photo).mimeType,
                             buffer      |-> Get(photo).buffer]]

\* rendered: whether ejs.renderFile resolves
WebviewRoute(authUserId, rendered) ==
    IF ~Authenticated(authUserId)
    THEN [route |-> "/webview", authUserId |-> authUserId, status |-> 401,
          body |-> "Please open from MentraOS app"]
    ELSE IF rendered
    THEN [route |-> "/webview", authUserId |-> authUserId, status |-> 200,
          body |-> "photo-viewer.ejs"]
    ELSE \* the rejection leaves the async route handler: no answer is sent
         [route |-> "/webview", authUserId |-> authUserId, status |-> 0,
          body |-> "no response"]

\* (_req, res) => res.redirect("/webview")
RootRoute(authUserId) ==
    [route |-> "/", authUserId |-> authUserId, status |-> 302, body |-> "/webview"]

AuthUserIds == {Undefined, Some("")} \cup {Some(u) : u \in Users}
Params == {RequestIdOf(n) : n \in 0..MaxParam}

Answer(r) ==
    /\ CanSpend(1)
    /\ used' = used + 1
    /\ response' = Some(r)
    /\ UNCHANGED <<photos, latestPhotoTimestamp, isStreamingPhotos, nextPhotoTime,
                   sessionMap, sessions, tasks, now, nextRequestId, files, writes,
                   uploads, inserted, limit, probe, lastAuto>>

GetLatestPhoto(authUserId) ==
    Answer(LatestPhotoRoute(authUserId)) /\ UNCHANGED escaped

GetPhotos(authUserId) ==
    Answer(PhotosRoute(authUserId)) /\ UNCHANGED escaped

GetPhoto(authUserId, requestId) ==
    Answer(PhotoRoute(authUserId, requestId)) /\ UNCHANGED escaped

GetWebview(authUserId, rendered) ==
    /\ Answer(WebviewRoute(authUserId, rendered))
    /\ escaped' = IF Authenticated(authUserId) /\ ~rendered
                  THEN escaped \cup {"GET /webview"}
                  ELSE escaped

GetRoot(authUserId) ==
    Answer(RootRoute(authUserId)) /\ UNCHANGED escaped

-----------------------------------------------------------------------------
(* The program.                                                            *)

\* Date.now() when the program starts: half a minute before a midnight
Boot == MsPerDay - ThrottleMs

Start(l) ==
    /\ photos = EmptyMap
    /\ latestPhotoTimestamp = EmptyMap
    /\ isStreamingPhotos = EmptyMap
    /\ nextPhotoTime = EmptyMap
    /\ sessionMap = EmptyMap
    /\ sessions = << >>
    /\ tasks = EmptyMap
    /\ now = Boot
    /\ nextRequestId = 0
    /\ files = {}
    /\ writes = {}
    /\ uploads = EmptyMap
    /\ inserted = EmptyMap
    /\ escaped = {}
    /\ response = Undefined
    /\ limit = l
    /\ used = 0
    /\ probe = Undefined
    /\ lastAuto = EmptyMap

\* the program after its construction, with one of two limits on what the
\* environment does: many events around one capture, or two captures that overlap
Init == Start(WideLimit) \/ Start(OverlapLimit)

InitLong == Start(LongLimit)

\* two timer requests and the events between them
InitThrottle == Start(ThrottleLimit)

Next ==
    \/ \E u \in Users : OnSession(u)
    \/ \E s \in SessionIds, pressType \in PressTypes : ButtonPress(s, pressType)
    \/ \E s \in SessionIds : TimerTick(s)
    \/ \E s \in SessionIds : OnStop(s)
    \/ \E t \in DOMAIN tasks, mime \in CameraMimeTypes : CameraResolve(t, mime)
    \/ \E t \in DOMAIN tasks : CameraReject(t)
    \/ \E t \in DOMAIN tasks : WriteResolve(t)
    \/ \E t \in DOMAIN tasks : WriteReject(t)
    \/ \E t \in DOMAIN tasks, mime \in CameraMimeTypes : FollowCameraResolve(t, mime)
    \/ \E t \in DOMAIN tasks : FollowCameraReject(t)
    \/ \E t \in DOMAIN tasks : FollowWriteResolve(t)
    \/ \E t \in DOMAIN tasks : FollowWriteReject(t)
    \/ \E t \in DOMAIN tasks : FollowUploadResolve(t)
    \/ \E t \in DOMAIN tasks : FollowUploadReject(t)
    \/ \E t \in DOMAIN tasks : UploadResolve(t)
    \/ \E t \in DOMAIN tasks : UploadReject(t)
    \/ \E d \in ClockSteps : Advance(d)
    \/ \E a \in AuthUserIds : GetLatestPhoto(a)
    \/ \E a \in AuthUserIds : GetPhotos(a)
    \/ \E a \in AuthUserIds, r \in Params : GetPhoto(a, r)
    \/ \E a \in AuthUserIds, rendered \in BOOLEAN : GetWebview(a, rendered)
    \/ \E a \in AuthUserIds : GetRoot(a)

\* every behaviour of the program within WideLimit or OverlapLimit
Spec == Init /\ [][Next]_vars

\* every behaviour of the program within LongLimit: long enough to fill a list
SpecLong == InitLong /\ [][Next]_vars

\* the sessions, captures and clock of one user, while no HTTP request arrives
NextThrottle ==
    \/ \E u \in ThrottleUsers : OnSession(u)
    \/ \E s \in SessionIds, pressType \in PressTypes : ButtonPress(s, pressType)
    \/ \E s \in SessionIds : TimerTick(s)
    \/ \E s \in SessionIds : OnStop(s)
    \/ \E t \in DOMAIN tasks, mime \in CameraMimeTypes : CameraResolve(t, mime)
    \/ \E t \in DOMAIN tasks : CameraReject(t)
    \/ \E t \in DOMAIN tasks : WriteResolve(t)
    \/ \E t \in DOMAIN tasks : WriteReject(t)
    \/ \E t \in DOMAIN tasks, mime \in CameraMimeTypes : FollowCameraResolve(t, mime)
    \/ \E t \in DOMAIN tasks : FollowCameraReject(t)
    \/ \E t \in DOMAIN tasks : FollowWriteResolve(t)
    \/ \E t \in DOMAIN tasks : FollowWriteReject(t)
    \/ \E t \in DOMAIN tasks : FollowUploadResolve(t)
    \/ \E t \in DOMAIN tasks : FollowUploadReject(t)
    \/ \E t \in DOMAIN tasks : UploadResolve(t)
    \/ \E t \in DOMAIN tasks : UploadReject(t)
    \/ \E d \in ClockSteps : Advance(d)

SpecThrottle == InitThrottle /\ [][NextThrottle]_vars

\* two timer captures of one session
InitLive == Start(LiveLimit)

\* the await that invocation t is suspended at settles
Settles(t) ==
    \/ \E mime \in CameraMimeTypes : CameraResolve(t, mime)
    \/ CameraReject(t)
    \/ WriteResolve(t)
    \/ WriteReject(t)
    \/ \E mime \in CameraMimeTypes : FollowCameraResolve(t, mime)
    \/ FollowCameraReject(t)
    \/ FollowWriteResolve(t)
    \/ FollowWriteReject(t)
    \/ FollowUploadResolve(t)
    \/ FollowUploadReject(t)
    \/ UploadResolve(t)
    \/ UploadReject(t)

\* setInterval keeps calling the timer callback, time passes, and some
\* pending requestPhoto, fs.writeFile or bucket.upload settles; as a behaviour
\* starts a bounded number of captures, every one of them settles
Fairness ==
    /\ WF_vars(\E s \in SessionIds : TimerTick(s))
    /\ WF_vars(\E d \in ClockSteps : Advance(d))
    /\ WF_vars(\E t \in DOMAIN tasks : Settles(t))

SpecLive == InitLive /\ [][NextThrottle]_vars /\ Fairness

-----------------------------------------------------------------------------
(* The file name functions on their own: every input is a PhotoData whose  *)
(* requestId, timestamp and mimeType may be undefined, as the code allows. *)

ProbeMimeTypes ==
    {Undefined} \cup
    {Some(m) : m \in {"", "image/jpeg", "image/jpg", "image/png", "image/webp",
                      "image/gif", "image/bmp", "image/tiff", "image/heic",
                      "IMAGE/PNG", "video/mp4"}}
ProbeDates ==
    {0, 59999, 3600000, MsPerDay - 1, Boot, 20 * MsPerDay + 45296789, 2147483647}
ProbeTimestamps == {Undefined} \cup {Some(d) : d \in ProbeDates}
ProbeRequestIds == {Undefined, Some("r1"), Some("photo_req:7")}
ProbeClock == {Boot, Boot + IntervalMs}

ProbeInput(p) == [requestId |-> p.requestId, buffer |-> 0,
                  timestamp |-> p.timestamp, mimeType |-> p.mimeType]

\* the input of the file name functions is chosen
ChooseProbe(m, d, r) ==
    /\ probe = Undefined
    /\ probe' = Some([requestId |-> r, timestamp |-> d, mimeType |-> m,
                      cacheName |-> Undefined, saveName |-> Undefined])
    /\ UNCHANGED <<photos, latestPhotoTimestamp, isStreamingPhotos, nextPhotoTime,
                   sessionMap, sessions, tasks, now, nextRequestId, files, writes,
                   uploads, inserted, escaped, response, limit, used, lastAuto>>

\* cachePhoto builds the file name of the input at time d
BuildCacheName(d) ==
    /\ IsDefined(probe)
    /\ ~IsDefined(Get(probe).cacheName)
    /\ probe' = Some([Get(probe) EXCEPT
                        !.cacheName = Some(CachePhotoBaseName(ProbeInput(Get(probe)), d))])
    /\ UNCHANGED <<photos, latestPhotoTimestamp, isStreamingPhotos, nextPhotoTime,
                   sessionMap, sessions, tasks, now, nextRequestId, files, writes,
                   uploads, inserted, escaped, response, limit, used, lastAuto>>

\* savePhotoOnly builds the file name of the input at time d
BuildSaveName(d) ==
    /\ IsDefined(probe)
    /\ ~IsDefined(Get(probe).saveName)
    /\ probe' = Some([Get(probe) EXCEPT
                        !.saveName = Some(SavePhotoOnlyBaseName(ProbeInput(Get(probe)), d))])
    /\ UNCHANGED <<photos, latestPhotoTimestamp, isStreamingPhotos, nextPhotoTime,
                   sessionMap, sessions, tasks, now, nextRequestId, files, writes,
                   uploads, inserted, escaped, response, limit, used, lastAuto>>

NextNames ==
    \/ \E m \in ProbeMimeTypes, d \in ProbeTimestamps, r \in ProbeRequestIds :
           ChooseProbe(m, d, r)
    \/ \E d \in ProbeClock : BuildCacheName(d)
    \/ \E d \in ProbeClock : BuildSaveName(d)

\* the file name functions applied to every input
SpecNames == Start(WideLimit) /\ [][NextNames]_vars

-----------------------------------------------------------------------------
(* The claims.                                                             *)

Min(a, b) == IF a <= b THEN a ELSE b

\* C1: in every reachable state every user's photo list holds at most 50
\* entries, whichever captures filled it (checked under SpecLong, where a
\* list is filled beyond 50).
C1_ListAtMostFifty ==
    \A u \in DOMAIN photos : Len(photos[u]) <= 50

\* a list of 50 that 51 photos were put into, by cachePhoto and by savePhotoOnly
C1_ListFull ==
    \E u \in DOMAIN photos :
        /\ Len(photos[u]) = 50
        /\ Len(InsertedOf(u)) = 51
        /\ \E i, j \in 1..51 : /\ InsertedOf(u)[i].by = "cachePhoto"
                               /\ InsertedOf(u)[j].by = "savePhotoOnly"

\* C2: every user's list is most recent first: the photo at a smaller index
\* was captured no earlier than the photo at a larger one.
C2_MostRecentFirst ==
    \A u \in DOMAIN photos :
        \A i, j \in 1..Len(photos[u]) :
            i < j => Get(photos[u][i].timestamp) >= Get(photos[u][j].timestamp)

\* C3, as claimed: every route answers a request without authUserId with 401.
C3_EveryRouteAnswers401 ==
    (IsDefined(response) /\ ~Authenticated(Get(response).authUserId))
        => Get(response).status = 401

\* C3, amended: /api/latest-photo, /api/photos, /api/photo/:requestId and
\* /webview answer a request without authUserId with 401; / is not gated: it
\* answers every request with a redirect to /webview.
C3_RoutesGatedButRoot ==
    IsDefined(response) =>
        LET r == Get(response)
        IN  /\ (r.route # "/" /\ ~Authenticated(r.authUserId)) => r.status = 401
            /\ r.route = "/" => (r.status = 302 /\ r.body = "/webview")

\* a request without authUserId is answered 401 while the cache holds a photo
C3_Refused ==
    /\ IsDefined(response)
    /\ Get(response).route = "/api/photos"
    /\ Get(response).authUserId = Undefined
    /\ Get(response).status = 401
    /\ \E u \in DOMAIN photos : photos[u] # << >>

\* the await of task t at pc ends in this step
Leaves(t, pc) ==
    /\ t \in DOMAIN tasks
    /\ tasks[t].pc = pc
    /\ (t \notin DOMAIN tasks' \/ tasks'[t].pc # pc)

\* C4: when requestPhoto() of the button handler or of the timer callback
\* rejects (the task leaves its await and no file write is started), no
\* exception leaves the handler, and no photo list and no latestPhotoTimestamp
\* changes.
C4_CameraFailureIsCaught ==
    [][\A t \in DOMAIN tasks :
          (Leaves(t, "camera") /\ writes' = writes)
              => /\ "handler" \notin escaped'
                 /\ photos' = photos
                 /\ latestPhotoTimestamp' = latestPhotoTimestamp]_vars

\* the request of a timer tick was rejected: nextPhotoTime is still 30 s ahead,
\* and nothing of the request is left
C4_TimerRequestRejected ==
    /\ nextRequestId = 1
    /\ DOMAIN tasks = {}
    /\ writes = {}
    /\ photos = EmptyMap
    /\ escaped = {}
    /\ \E u \in DOMAIN nextPhotoTime : nextPhotoTime[u] = now + ThrottleMs

\* C5: when the file write of the primary photo fails (the task leaves the
\* await of the write and the file is not there), cachePhoto goes on: the
\* photo is the head of the user's list, latestPhotoTimestamp is its
\* timestamp, no exception has left cachePhoto, and GET /api/photo/<its
\* request id> of that user answers 200 with its bytes.
C5_WriteFailureKeepsPhoto ==
    [][\A t \in DOMAIN tasks :
          (Leaves(t, "write") /\ tasks[t].baseName \notin files')
              => LET u     == tasks[t].userId
                     photo == Get(tasks[t].photo)
                 IN  /\ t \in DOMAIN tasks'
                     /\ u \in DOMAIN photos'
                     /\ photos'[u] # << >>
                     /\ photos'[u][1].requestId = photo.requestId
                     /\ photos'[u][1].buffer = photo.buffer
                     /\ photos'[u][1].timestamp = photo.timestamp
                     /\ photos'[u][1].filename = tasks[t].baseName
                     /\ Tail(photos'[u]) = SubSeq(PhotosOf(u), 1, Len(photos'[u]) - 1)
                     /\ latestPhotoTimestamp'[u] = Get(photo.timestamp)
                     /\ "cachePhoto" \notin escaped'
                     /\ PhotoRoute(Some(u), Get(photo.requestId))'.status = 200
                     /\ PhotoRoute(Some(u), Get(photo.requestId))'.body.buffer
                            = photo.buffer]_vars

\* a photo without a file was fetched by its user
C5_FetchedWithoutFile ==
    /\ IsDefined(response)
    /\ Get(response).status = 200
    /\ IsDefined(Get(response).authUserId)
    /\ \E p \in {PhotosOf(Get(Get(response).authUserId))[i] :
                    i \in 1..Len(PhotosOf(Get(Get(response).authUserId)))} :
           /\ Get(response).route = "/api/photo/" \o Get(p.requestId)
           /\ Get(response).body.buffer = p.buffer
           /\ p.filename \notin files

\* the records of the lists, each with the user and the index it is at
Records ==
    UNION {{[owner |-> u, index |-> i, photo |-> photos[u][i]] :
               i \in 1..Len(photos[u])} : u \in DOMAIN photos}

\* the function that put the photo of request id r into the list of u
InsertedBy(u, r) ==
    LET hits == {i \in 1..Len(InsertedOf(u)) : InsertedOf(u)[i].requestId = r}
    IN  {InsertedOf(u)[i].by : i \in hits}

\* C6, as claimed: every record of every list has its file under snapshots/.
C6_EveryRecordHasFile ==
    \A c \in Records : c.photo.filename \in files

\* C6, amended: for every record of every list fs.writeFile was called with
\* the record's filename under snapshots/; the file is there when that write
\* succeeded, which it did for every record savePhotoOnly inserted; a record
\* cachePhoto inserted is kept also when its write failed.
C6_EveryRecordWasWritten ==
    \A c \in Records :
        /\ c.photo.filename \in writes
        /\ c.photo.filename \notin files
               => InsertedBy(c.owner, c.photo.requestId) = {"cachePhoto"}

\* a list holds a record with its file and a record whose write failed
C6_WithAndWithoutFile ==
    \E c, d \in Records :
        /\ c.photo.filename \in files
        /\ d.photo.filename \in writes \ files

\* C7: bucket.upload is called exactly once for every record put into a
\* list, in the step that puts it there and not before, with the destination
\* sessions/<userId of the list>/images/<filename of the record>; when an
\* upload fails the record stays in the list (until 50 newer ones push it
\* out) and no exception leaves uploadToFirebase, savePhotoOnly or
\* cachePhoto.
C7_OneUploadPerRecord ==
    /\ \A c \in Records :
           LET key == "sessions/" \o c.owner \o "/images/" \o c.photo.filename
           IN  /\ key \in DOMAIN uploads
               /\ uploads[key].calls = 1
               /\ uploads[key].filename = c.photo.filename
               /\ c.photo.userId = c.owner
    /\ \A key \in DOMAIN uploads : uploads[key].calls = 1
    /\ Cardinality(DOMAIN uploads) =
           Cardinality(UNION {{<<u, i>> : i \in 1..Len(inserted[u])} :
                                 u \in DOMAIN inserted})
    /\ \A key \in DOMAIN uploads :
           uploads[key].status = "failed" =>
               \E u \in DOMAIN photos :
                   \/ Len(inserted[u]) > 50
                   \/ \E c \in Records :
                          /\ c.owner = u
                          /\ key = "sessions/" \o u \o "/images/" \o c.photo.filename
    /\ escaped \cap {"uploadToFirebase", "savePhotoOnly", "cachePhoto"} = {}

\* the upload of a follow-up photo and of its primary photo both failed, the
\* handler has ended and both records are in the list
C7_FailedUploadsSwallowed ==
    /\ DOMAIN tasks = {}
    /\ \E c, d \in Records :
           /\ c.owner = d.owner
           /\ InsertedBy(c.owner, c.photo.requestId) = {"cachePhoto"}
           /\ InsertedBy(d.owner, d.photo.requestId) = {"savePhotoOnly"}
           /\ uploads["sessions/" \o c.owner \o "/images/" \o c.photo.filename].status
                  = "failed"
           /\ uploads["sessions/" \o d.owner \o "/images/" \o d.photo.filename].status
                  = "failed"

\* C8: the timer requests a photo for a user only in a step that finds the
\* user's streaming flag on; onSession leaves the flag off, and the flag is
\* turned on only by a step that starts no capture, ends none and creates no
\* session while the user has a live session: a long press.
C8_NoRequestWhileOff ==
    [][/\ \A t \in DOMAIN tasks' \ DOMAIN tasks :
              tasks'[t].kind = "timer" =>
                  /\ tasks'[t].userId \in DOMAIN isStreamingPhotos
                  /\ isStreamingPhotos[tasks'[t].userId] = TRUE
       /\ Len(sessions') > Len(sessions)
              => isStreamingPhotos'[sessions'[Len(sessions')].userId] = FALSE
       /\ \A u \in DOMAIN isStreamingPhotos' :
              (isStreamingPhotos'[u] /\ ~Streaming(u))
                  => /\ tasks' = tasks
                     /\ sessions' = sessions
                     /\ \E s \in SessionIds :
                            Session(s).userId = u /\ Session(s).active]_vars

\* a timer request is in flight, and the user has turned streaming off again
C8_RequestedWhileOn ==
    \E t \in DOMAIN tasks :
        /\ tasks[t].kind = "timer"
        /\ tasks[t].pc = "camera"
        /\ ~Streaming(tasks[t].userId)

-----------------------------------------------------------------------------
\* the extension the claim gives for a MIME type
ClaimedExt(mime) ==
    LET table == {<<"image/jpeg", ".jpg">>, <<"image/jpg", ".jpg">>,
                  <<"image/png", ".png">>, <<"image/webp", ".webp">>,
                  <<"image/gif", ".gif">>, <<"image/bmp", ".bmp">>,
                  <<"image/tiff", ".tiff">>}
        rows  == {row \in table : IsDefined(mime) /\ row[1] = Get(mime)}
    IN  IF rows = {} THEN ".bin" ELSE (CHOOSE row \in rows : TRUE)[2]

\* name is photo_<ts>_<requestId><ext> for the input p whose timestamp is d
IsClaimedName(name, p, d) ==
    LET iso  == ToISOString(d)
        n    == Len(iso)
        rest == (IF IsDefined(p.requestId) THEN Get(p.requestId) ELSE "unknown")
                    \o ClaimedExt(p.mimeType)
    IN  /\ Len(name) = 6 + n + 1 + Len(rest)
        /\ SubSeq(name, 1, 6) = "photo_"
        /\ \A i \in 1..n :
               SubSeq(name, 6 + i, 6 + i) =
                   IF SubSeq(iso, i, i) = ":" THEN "-" ELSE SubSeq(iso, i, i)
        /\ SubSeq(name, 7 + n, 7 + n) = "_"
        /\ SubSeq(name, 8 + n, Len(name)) = rest

\* C9: for a photo with a timestamp, the file name cachePhoto builds and the
\* file name savePhotoOnly builds are both photo_<ts>_<requestId><ext>, ts the
\* ISO timestamp with every colon replaced by "-", requestId the request id or
\* "unknown", ext as the claim lists it; so they are the same name (checked
\* under SpecNames).
C9_FileName ==
    (IsDefined(probe) /\ IsDefined(Get(probe).timestamp)) =>
        LET p == Get(probe)
        IN  /\ IsDefined(p.cacheName)
                => IsClaimedName(Get(p.cacheName), p, Get(p.timestamp))
            /\ IsDefined(p.saveName)
                => IsClaimedName(Get(p.saveName), p, Get(p.timestamp))
            /\ (IsDefined(p.cacheName) /\ IsDefined(p.saveName))
                => p.cacheName = p.saveName

\* both functions have named an image/jpg photo without request id
C9_BothNamed ==
    /\ IsDefined(probe)
    /\ Get(probe).mimeType = Some("image/jpg")
    /\ Get(probe).requestId = Undefined
    /\ Get(probe).cacheName = Some("photo_1970-01-21T12-34-56.789Z_unknown.jpg")
    /\ Get(probe).saveName = Get(probe).cacheName

-----------------------------------------------------------------------------
\* C10: after N insertions a list is the min(N, 50) records inserted last,
\* the last one first; an insertion into a list of 50 drops the record at the
\* tail and keeps the other 49 in their order behind the new head (checked
\* under SpecLong).
C10_EvictsOldest ==
    [][\A u \in DOMAIN photos' :
          LET list == photos'[u]
              ins  == inserted'[u]
              N    == Len(ins)
          IN  /\ Len(list) = Min(N, 50)
              /\ \A i \in 1..Len(list) : list[i].requestId = ins[N + 1 - i].requestId
              /\ list # PhotosOf(u) =>
                     /\ N = Len(InsertedOf(u)) + 1
                     /\ Tail(list) = SubSeq(PhotosOf(u), 1, Min(Len(PhotosOf(u)), 49))
                     /\ Len(PhotosOf(u)) = 50 =>
                            \A i \in 1..49 : list[i + 1] = PhotosOf(u)[i]]_vars

\* a list that 52 photos were put into holds the 50 last ones
C10_TwoEvicted ==
    \E u \in DOMAIN photos :
        /\ Len(inserted[u]) = 52
        /\ Len(photos[u]) = 50
        /\ photos[u][50].requestId = inserted[u][3].requestId
        /\ photos[u][1].requestId = inserted[u][52].requestId

-----------------------------------------------------------------------------
\* the users whose streaming flag a step changes (a missing flag reads as off)
Flipped ==
    {u \in Users : Coalesce(MapGet(isStreamingPhotos', u), FALSE) # Streaming(u)}

\* C11: a long press on session s flips the flag of s's user and of nobody
\* else, starts no camera request and changes no photo list; a press of any
\* other type changes no flag and starts exactly one request, the primary
\* request of a button capture on s.  Conversely, a step that flips a flag
\* without creating or stopping a session flips one flag and starts nothing,
\* and a step that starts a button capture flips no flag.
C11_PressFrame ==
    [][/\ \A s \in SessionIds :
              ButtonPress(s, "long") =>
                  /\ Flipped = {Session(s).userId}
                  /\ isStreamingPhotos'[Session(s).userId] = ~Streaming(Session(s).userId)
                  /\ tasks' = tasks
                  /\ nextRequestId' = nextRequestId
                  /\ photos' = photos
       /\ \A s \in SessionIds :
              ButtonPress(s, "short") =>
                  /\ Flipped = {}
                  /\ isStreamingPhotos' = isStreamingPhotos
                  /\ nextRequestId' = nextRequestId + 1
                  /\ DOMAIN tasks' = DOMAIN tasks \cup {nextRequestId'}
                  /\ \A t \in DOMAIN tasks : tasks'[t] = tasks[t]
                  /\ tasks'[nextRequestId'].kind = "button"
                  /\ tasks'[nextRequestId'].session = s
                  /\ tasks'[nextRequestId'].pc = "camera"
                  /\ photos' = photos
       /\ (Flipped # {} /\ sessions' = sessions) =>
              /\ Cardinality(Flipped) = 1
              /\ tasks' = tasks
              /\ nextRequestId' = nextRequestId
              /\ photos' = photos
       /\ \A t \in DOMAIN tasks' \ DOMAIN tasks :
              tasks'[t].kind = "button" => Flipped = {}]_vars

\* alice has pressed long, bob has not: her flag is on and his is off, and no
\* camera request has been made
C11_OnlyAliceStreams ==
    /\ Streaming("alice")
    /\ "bob" \in DOMAIN isStreamingPhotos
    /\ ~Streaming("bob")
    /\ nextRequestId = 0
    /\ photos = EmptyMap

-----------------------------------------------------------------------------
\* C12: a timer tick starts a camera request for a user only when the last
\* request a tick started for that user has succeeded or was started at least
\* 30 seconds ago; in particular, after a failed request the next one starts
\* no earlier than 30 seconds after the failed one started.
C12_Throttled ==
    [][\A t \in DOMAIN tasks' \ DOMAIN tasks :
          (tasks'[t].kind = "timer" /\ tasks'[t].userId \in DOMAIN lastAuto) =>
              LET last == lastAuto[tasks'[t].userId]
              IN  \/ last.status = "ok"
                  \/ now >= last.started + ThrottleMs]_vars

-----------------------------------------------------------------------------
\* the bounds of the behaviour leave no further timer capture for u: the
\* camera requests are used up, or the clock cannot pass the user's
\* nextPhotoTime, or a capture cannot end
Exhausted(u) ==
    \/ ~CanCapture
    \/ /\ ~CanSpend(1)
       /\ \/ Coalesce(MapGet(nextPhotoTime, u), 0) >= now
          \/ \E t \in DOMAIN tasks :
                 /\ tasks[t].pc \in {"followUpload", "upload"}
                 /\ ~CanUpload(t)

\* the timer callback of a session of u has put its photo at the head of u's
\* list and has not returned yet: the state right after an insertion
AutoInserted(u) ==
    \E t \in DOMAIN tasks :
        /\ tasks[t].kind = "timer"
        /\ tasks[t].userId = u
        /\ tasks[t].pc = "upload"
        /\ PhotosOf(u) # << >>
        /\ Head(PhotosOf(u)).requestId = Some(RequestIdOf(t))

-----------------------------------------------------------------------------
\* how far a handler invocation suspended at pc has got
Rank(pc) ==
    CASE pc = "camera"       -> 1
      [] pc = "write"        -> 2
      [] pc = "followCamera" -> 3
      [] pc = "followWrite"  -> 4
      [] pc = "followUpload" -> 5
      [] pc = "upload"       -> 6

\* C14: a step issues at most one camera request, and a request is either the
\* primary request of a new trigger (a press or a firing tick) or the
\* follow-up request of an invocation that has issued only its primary
\* request and whose primary file write has just resolved; no step of
\* savePhotoOnly issues one.  Every step of an invocation takes it to a later
\* await or ends it, so it ends after at most six of them.
C14_FollowUpOnce ==
    [][/\ nextRequestId' \in {nextRequestId, nextRequestId + 1}
       /\ \A t \in DOMAIN tasks' \ DOMAIN tasks :
              /\ t = nextRequestId + 1
              /\ nextRequestId' = t
              /\ tasks'[t].request = t
              /\ tasks'[t].pc = "camera"
       /\ \A t \in DOMAIN tasks \cap DOMAIN tasks' :
              /\ tasks'[t] # tasks[t] => Rank(tasks'[t].pc) > Rank(tasks[t].pc)
              /\ tasks'[t].request # tasks[t].request =>
                     /\ tasks[t].request = t
                     /\ tasks[t].pc = "write"
                     /\ tasks'[t].pc = "followCamera"
                     /\ tasks'[t].request = nextRequestId + 1
                     /\ nextRequestId' = nextRequestId + 1
       /\ nextRequestId' # nextRequestId =>
              \/ DOMAIN tasks' \ DOMAIN tasks # {}
              \/ \E t \in DOMAIN tasks \cap DOMAIN tasks' :
                     tasks'[t].request # tasks[t].request]_vars

\* a button press has led to two camera requests and two cached photos, and
\* its handler is at its last await
C14_TwoRequestsMade ==
    /\ nextRequestId = 2
    /\ DOMAIN tasks = {1}
    /\ tasks[1].kind = "button"
    /\ tasks[1].request = 2
    /\ tasks[1].pc = "upload"
    /\ Len(PhotosOf(tasks[1].userId)) = 2

-----------------------------------------------------------------------------
\* invocation t has, in this step, put its primary photo at the head of its
\* user's list and started the upload of it
PrimaryCached(t) ==
    LET u   == tasks[t].userId
        key == "sessions/" \o u \o "/images/" \o tasks[t].baseName
    IN  /\ t \in DOMAIN tasks'
        /\ tasks'[t].pc = "upload"
        /\ u \in DOMAIN inserted' \cap DOMAIN photos'
        /\ inserted'[u] =
               Append(InsertedOf(u),
                      [requestId |-> Some(RequestIdOf(t)), by |-> "cachePhoto"])
        /\ photos'[u] # << >>
        /\ Head(photos'[u]).requestId = Some(RequestIdOf(t))
        /\ Head(photos'[u]).filename = tasks[t].baseName
        /\ key \in DOMAIN uploads' \ DOMAIN uploads
        /\ uploads'[key].status = "pending"

\* C15: the step in which the primary file write settles requests the
\* follow-up photo exactly when the write succeeded, and otherwise caches the
\* primary photo at once; the follow-up photo is put into the list only by
\* the step in which its own file write succeeds; and the step in which the
\* follow-up request or the follow-up write fails puts the primary photo at
\* the head of the list and starts its upload.
C15_FollowUpAfterWrite ==
    [][\A t \in DOMAIN tasks :
          LET u == tasks[t].userId
          IN  /\ (tasks[t].pc = "write" /\ (t \notin DOMAIN tasks' \/ tasks'[t] # tasks[t])) =>
                     IF tasks[t].baseName \in files'
                     THEN /\ t \in DOMAIN tasks'
                          /\ tasks'[t].pc = "followCamera"
                          /\ nextRequestId' = nextRequestId + 1
                          /\ inserted' = inserted
                     ELSE /\ nextRequestId' = nextRequestId
                          /\ PrimaryCached(t)
              /\ tasks[t].pc \in {"followCamera", "followWrite", "followUpload"} =>
                     tasks[t].baseName \in files
              /\ (tasks[t].pc = "followCamera" /\ (t \notin DOMAIN tasks' \/ tasks'[t] # tasks[t])) =>
                     \/ /\ t \in DOMAIN tasks'
                        /\ tasks'[t].pc = "followWrite"
                        /\ inserted' = inserted
                     \/ PrimaryCached(t)
              /\ (tasks[t].pc = "followWrite" /\ (t \notin DOMAIN tasks' \/ tasks'[t] # tasks[t])) =>
                     IF tasks[t].nextName \in files'
                     THEN /\ t \in DOMAIN tasks'
                          /\ tasks'[t].pc = "followUpload"
                          /\ u \in DOMAIN inserted'
                          /\ inserted'[u] =
                                 Append(InsertedOf(u),
                                        [requestId |-> Some(RequestIdOf(tasks[t].request)),
                                         by |-> "savePhotoOnly"])
                     ELSE PrimaryCached(t)
              /\ \A v \in DOMAIN inserted' :
                     (v = u /\ Len(inserted'[v]) > Len(InsertedOf(v))
                          /\ inserted'[v][Len(inserted'[v])].by = "savePhotoOnly"
                          /\ (t \notin DOMAIN tasks' \/ tasks'[t] # tasks[t])) =>
                         /\ tasks[t].pc = "followWrite"
                         /\ tasks[t].nextName \in files']_vars

\* the follow-up request of a capture has failed, and its primary photo is
\* the only record of the list and is being uploaded
C15_PrimaryCachedAlone ==
    \E t \in DOMAIN tasks :
        /\ tasks[t].pc = "upload"
        /\ tasks[t].request # t
        /\ tasks[t].nextPhoto = Undefined
        /\ tasks[t].baseName \in files
        /\ Len(InsertedOf(tasks[t].userId)) = 1
        /\ Head(PhotosOf(tasks[t].userId)).requestId = Some(RequestIdOf(t))

-----------------------------------------------------------------------------
\* C16: a timer tick requests a photo only on a session that has not been
\* stopped and that is the session sessionMap holds for its user, the one of
\* the user's last onSession.
C16_CurrentSessionOnly ==
    [][\A t \in DOMAIN tasks' \ DOMAIN tasks :
          tasks'[t].kind = "timer" =>
              /\ Session(tasks'[t].session).active
              /\ MapGet(sessionMap, tasks'[t].userId) = Some(tasks'[t].session)]_vars

-----------------------------------------------------------------------------
\* the camera requests of user u that are in flight, by invocation
Requesting(u) ==
    {t \in DOMAIN tasks :
        tasks[t].userId = u /\ tasks[t].pc \in {"camera", "followCamera"}}

\* the camera requests invocation t has made and that have not settled: its
\* primary request until the photo is there, its follow-up request while it
\* awaits it
Outstanding(t) ==
    {r \in {t} : ~IsDefined(tasks[t].photo)}
        \cup {r \in {tasks[t].request} : r # t /\ tasks[t].pc = "followCamera"}

\* C17, as claimed: a user never has two camera requests in flight.
C17_OneRequestPerUser ==
    \A u \in Users : Cardinality(Requesting(u)) <= 1

\* C17, amended: an invocation of the button handler or of the timer
\* callback never has two camera requests in flight: it makes its follow-up
\* request only when its primary request has resolved, and it awaits a
\* request exactly while one of its requests is outstanding.
C17_OneRequestPerInvocation ==
    \A t \in DOMAIN tasks :
        /\ Cardinality(Outstanding(t)) <= 1
        /\ tasks[t].request # t => IsDefined(tasks[t].photo)
        /\ tasks[t].pc \in {"camera", "followCamera"} <=> Outstanding(t) # {}
        /\ tasks[t].pc = "camera" <=> ~IsDefined(tasks[t].photo)

\* two invocations for one user await the camera at once: one its follow-up
\* request, the other its primary request
C17_TwoInvocationsRequesting ==
    \E t1, t2 \in DOMAIN tasks :
        /\ tasks[t1].userId = tasks[t2].userId
        /\ tasks[t1].pc = "followCamera"
        /\ Outstanding(t1) = {tasks[t1].request}
        /\ tasks[t2].pc = "camera"
        /\ Outstanding(t2) = {t2}

=============================================================================
